---- MODULE Spec2Model ----
(***************************************************************************)
(* Model of the WS281x-over-SPI LED driver (leds-ws281x-spi.c): the probe  *)
(* sequence, the pixel encoder and the blocking brightness-set protocol    *)
(* run by several concurrent callers on one LED chain.                     *)
(***************************************************************************)
EXTENDS Integers, Sequences, FiniteSets, TLC

(* ------------------------------ bounds -------------------------------- *)
\* largest number of child LED nodes the hardware description declares
MaxLeds == 2
\* total number of brightness-set calls started in one behaviour
MaxCalls == 2

\* the concurrent calling contexts of the brightness API: two callers are
\* what every race on the chain (store against rebuild, lock against lock)
\* takes
Threads == {1, 2}
LedIdx == 0..(MaxLeds - 1)

\* brightness scalars the LED core passes (enum led_brightness, 0..LED_FULL)
BrightnessInputs == {0, 255}
\* results of spi_sync: 0, -EIO
SpiResults == {0, -5}
\* results of the fallible probe steps: 0, -ENOMEM
StepResults == {0, -12}

(* ------------------------- chip information --------------------------- *)
zero_val == 192
one_val == 252
write_freq == 6400000
BITS_PER_BYTE == 8
subpixel_sz == BITS_PER_BYTE
ch_per_led == 3
pixel_sz == BITS_PER_BYTE * 3

LED_OFF == 0
LED_FULL == 255
SPI_MODE_0 == 0
EINVAL == 22
ENOMEM == 12

\* struct mc_subled indexes set by ws281x_register_leds
LED_COLOR_ID_RED == 0
LED_COLOR_ID_GREEN == 1
LED_COLOR_ID_BLUE == 2

\* Contents a devm_kmalloc_array block can hold when handed out: the
\* allocation is not zeroed, so intensity and brightness of a fresh
\* mc_subled array are whatever the heap held.  One content is drawn per
\* chain (heap, in Init) and every array of the chain starts from it.
HeapPatterns ==
  { [intensity |-> <<0, 0, 0>>, brightness |-> <<0, 0, 0>>],
    [intensity |-> <<255, 128, 64>>, brightness |-> <<346, 7, 200>>] }

(* ------------------------------ encoder ------------------------------- *)
\* (unsigned char) conversion of an argument
U8(x) == x % 256

RECURSIVE format_subpixel_loop(_, _)
format_subpixel_loop(i, pixel) ==
  IF i >= subpixel_sz THEN <<>>
  ELSE << IF (pixel \div 128) % 2 = 1 THEN one_val ELSE zero_val >>
         \o format_subpixel_loop(i + 1, (pixel * 2) % 256)

RECURSIVE format_subpixel_lsb_loop(_, _)
format_subpixel_lsb_loop(i, pixel) ==
  IF i >= subpixel_sz THEN <<>>
  ELSE << IF pixel % 2 = 1 THEN one_val ELSE zero_val >>
         \o format_subpixel_lsb_loop(i + 1, pixel \div 2)

\* a subpixel encoder that tests bit 0 and shifts right: LSB first
format_subpixel_lsb(pixel) == format_subpixel_lsb_loop(0, U8(pixel))

\* ws281x_format_subpixel: subpixel_sz symbol bytes, MSB first
ws281x_format_subpixel(pixel) == format_subpixel_loop(0, U8(pixel))

\* a pixel encoder that emits the channels in argument order r, g, b
format_pixel_rgb(g, r, b) ==
  ws281x_format_subpixel(r) \o ws281x_format_subpixel(g)
    \o ws281x_format_subpixel(b)

\* ws2812_format_pixel_grb: green, then red, then blue
ws2812_format_pixel_grb(g, r, b) ==
  ws281x_format_subpixel(g) \o ws281x_format_subpixel(r)
    \o ws281x_format_subpixel(b)

RECURSIVE BitOr(_, _)
BitOr(a, b) ==
  IF a = 0 THEN b
  ELSE IF b = 0 THEN a
  ELSE (IF a % 2 = 1 \/ b % 2 = 1 THEN 1 ELSE 0)
       + 2 * BitOr(a \div 2, b \div 2)

\* a store that ORs the bytes of pix into what buf holds
store_or(buf, off, pix) ==
  [k \in 1..Len(buf) |->
     IF k - 1 >= off /\ k - 1 < off + Len(pix)
       THEN BitOr(buf[k], pix[k - off]) ELSE buf[k]]

\* a store that appends the bytes of pix to a buffer that grows
store_append(buf, off, pix) == buf \o pix

\* buf with the bytes of pix stored from byte offset off (0-based) on
StoreAt(buf, off, pix) ==
  [k \in 1..Len(buf) |->
     IF k - 1 >= off /\ k - 1 < off + Len(pix) THEN pix[k - off] ELSE buf[k]]

\* led_mc_calc_color_components, one colour component
calc_component(brightness, intensity) ==
  (brightness * intensity) \div LED_FULL

(* ------------------------------- state -------------------------------- *)
VARIABLES
  ppc,          \* position of ws281x_spi_probe
  count,        \* device_get_child_node_count(): declared child LED nodes
  heap,         \* what a block of devm_kmalloc_array holds when handed out
  probe_ret,    \* value ws281x_spi_probe returned
  num_leds,     \* ws281x->num_leds
  mutex_inited, \* devm_mutex_init has run on ws281x->mutex
  spi_cfg,      \* spi->mode, spi->bits_per_word, spi->max_speed_hz
  spi_ptr,      \* ws281x->spi is set
  pixelstream,  \* ws281x->pixelstream; <<>> while it is NULL
  num,          \* loop index of ws281x_register_leds
  subled,       \* ws281x->leds[i].led.subled_info; NULL or the mc_subled array
  registered,   \* LEDs registered with the multicolor LED class
  mutex,        \* ws281x->mutex: 0 when free, else the owning thread
  pc,           \* position of each thread in ws281x_brightness_set_blocking
  led,          \* the LED each thread's call is for
  bri,          \* the brightness argument of each thread's call
  ci,           \* loop index of led_mc_calc_color_components
  ui,           \* loop index of ws281x_update_pixelstream
  ret,          \* ret of ws281x_brightness_set_blocking
  ncalls,       \* calls started so far
  started,      \* history: brightness arguments of the calls started per LED
  lastWriter,   \* history: thread that stored each channel of each LED last
  builtBy,      \* history: thread whose current pass wrote each region
  spi_result,   \* history: what spi_sync returned to each thread's call
  txCount,      \* history: spi_sync calls made by each thread's call
  sent,         \* history: the last buffer handed to spi_sync
  sentLen,      \* history: xfers.len of the last transmission
  prev,         \* history: the pixelstream as the previous rebuild left it
  changed,      \* history: LEDs whose channels were stored since that rebuild
  rebuilt       \* history: TRUE once prev is the result of a rebuild

probeVars == <<ppc, count, heap, probe_ret, num_leds, mutex_inited, spi_cfg, spi_ptr, num>>
chainVars == <<pixelstream, subled, registered, mutex>>
callVars == <<pc, led, bri, ci, ui, ret>>
histVars == <<ncalls, started, lastWriter, builtBy,
              spi_result, txCount, sent, sentLen, prev, changed, rebuilt>>
vars == <<probeVars, chainVars, callVars, histVars>>

NULL == [intensity |-> <<>>, brightness |-> <<>>]
ZeroTriple == <<0, 0, 0>>
Zeros(n) == [k \in 1..n |-> 0]

Init ==
  /\ ppc = "count"
  /\ count \in 0..MaxLeds
  /\ heap \in HeapPatterns
  /\ probe_ret = 0
  /\ num_leds = 0
  /\ mutex_inited = FALSE
  /\ spi_cfg = [mode |-> -1, bits_per_word |-> 0, max_speed_hz |-> 0]
  /\ spi_ptr = FALSE
  /\ pixelstream = <<>>
  /\ num = 0
  /\ subled = [i \in LedIdx |-> NULL]
  /\ registered = {}
  /\ mutex = 0
  /\ pc = [t \in Threads |-> "idle"]
  /\ led = [t \in Threads |-> 0]
  /\ bri = [t \in Threads |-> 0]
  /\ ci = [t \in Threads |-> 0]
  /\ ui = [t \in Threads |-> 0]
  /\ ret = [t \in Threads |-> 0]
  /\ ncalls = 0
  /\ started = [i \in LedIdx |-> {}]
  /\ lastWriter = [i \in LedIdx |-> ZeroTriple]
  /\ builtBy = [i \in LedIdx |-> 0]
  /\ spi_result = [t \in Threads |-> 0]
  /\ txCount = [t \in Threads |-> 0]
  /\ sent = <<>>
  /\ sentLen = 0
  /\ prev = <<>>
  /\ changed = {}
  /\ rebuilt = FALSE

(* ------------------------------- probe -------------------------------- *)
\* a failing return of ws281x_spi_probe: the devm_ registrations made so far
\* are released, which unregisters every LED class device of the chain
probe_fail(r) ==
  /\ ppc' = "failed"
  /\ probe_ret' = r
  /\ registered' = {}

\* lines 266-269: no child node
probe_count ==
  /\ ppc = "count"
  /\ IF count = 0
       THEN probe_fail(-EINVAL)
       ELSE ppc' = "alloc" /\ UNCHANGED <<probe_ret, registered>>
  /\ UNCHANGED <<count, heap, num_leds, mutex_inited, spi_cfg, spi_ptr, num,
                 pixelstream, subled, mutex, callVars, histVars>>

\* lines 271-279: devm_kzalloc of the chain with its leds[] array
probe_alloc(ok) ==
  /\ ppc = "alloc"
  /\ IF ~ok
       THEN probe_fail(-ENOMEM) /\ UNCHANGED <<num_leds, subled>>
       ELSE /\ num_leds' = count
            /\ subled' = [i \in LedIdx |-> NULL]
            /\ ppc' = "mutex"
            /\ UNCHANGED <<probe_ret, registered>>
  /\ UNCHANGED <<count, heap, mutex_inited, spi_cfg, spi_ptr, num,
                 pixelstream, mutex, callVars, histVars>>

\* lines 281-283: devm_mutex_init
probe_mutex(r) ==
  /\ ppc = "mutex"
  /\ IF r # 0
       THEN probe_fail(r) /\ UNCHANGED <<mutex_inited, mutex>>
       ELSE /\ mutex_inited' = TRUE
            /\ mutex' = 0
            /\ ppc' = "spi"
            /\ UNCHANGED <<probe_ret, registered>>
  /\ UNCHANGED <<count, heap, num_leds, spi_cfg, spi_ptr, num,
                 pixelstream, subled, callVars, histVars>>

\* lines 285-292: transport configuration and spi_setup
probe_spi(r) ==
  /\ ppc = "spi"
  /\ spi_cfg' = [mode |-> SPI_MODE_0, bits_per_word |-> 8,
                 max_speed_hz |-> write_freq]
  /\ IF r # 0
       THEN probe_fail(r)
       ELSE ppc' = "stream" /\ UNCHANGED <<probe_ret, registered>>
  /\ UNCHANGED <<count, heap, num_leds, mutex_inited, spi_ptr, num,
                 pixelstream, subled, mutex, callVars, histVars>>

\* lines 294-300: devm_kcalloc of the pixelstream, then ws281x->spi = spi
probe_stream(ok) ==
  /\ ppc = "stream"
  /\ IF ~ok
       THEN probe_fail(-ENOMEM) /\ UNCHANGED <<pixelstream, spi_ptr>>
       ELSE /\ pixelstream' = Zeros(pixel_sz * count)
            /\ spi_ptr' = TRUE
            /\ ppc' = "reg_init"
            /\ UNCHANGED <<probe_ret, registered>>
  /\ UNCHANGED <<count, heap, num_leds, mutex_inited, spi_cfg, num,
                 subled, mutex, callVars, histVars>>

\* lines 231-246: devm_kmalloc_array of the mc_subled array of child num and
\* the stores through it; the result of the allocation is not tested, so a
\* failed allocation is dereferenced at line 236
register_leds_init(ok) ==
  /\ ppc = "reg_init"
  /\ IF ~ok
       THEN ppc' = "oops" /\ UNCHANGED subled
       ELSE /\ subled' = [subled EXCEPT ![num] = heap]
            /\ ppc' = "reg_classdev"
  /\ UNCHANGED <<count, heap, probe_ret, num_leds, mutex_inited, spi_cfg, spi_ptr,
                 num, pixelstream, registered, mutex, callVars, histVars>>

\* lines 248-256 and 302-307: devm_led_classdev_multicolor_register_ext of
\* child num, the loop's step and the return after the last child
register_leds_classdev(r) ==
  /\ ppc = "reg_classdev"
  /\ IF r # 0
       THEN probe_fail(r) /\ UNCHANGED num
       ELSE /\ registered' = registered \cup {num}
            /\ num' = num + 1
            /\ ppc' = IF num + 1 < count THEN "reg_init" ELSE "done"
            /\ probe_ret' = 0
  /\ UNCHANGED <<count, heap, num_leds, mutex_inited, spi_cfg, spi_ptr,
                 pixelstream, subled, mutex, callVars, histVars>>

ws281x_spi_probe ==
  \/ probe_count
  \/ \E ok \in BOOLEAN : probe_alloc(ok)
  \/ \E r \in StepResults : probe_mutex(r)
  \/ \E r \in StepResults : probe_spi(r)
  \/ \E ok \in BOOLEAN : probe_stream(ok)
  \/ \E ok \in BOOLEAN : register_leds_init(ok)
  \/ \E r \in StepResults : register_leds_classdev(r)

(* ----------------------- brightness-set protocol ----------------------- *)
\* the store of colour component c (1-based) of LED l by thread t
\* (led_mc_calc_color_components, one pass of its loop)
store_component(t, l, b, c) ==
  /\ subled' = [subled EXCEPT ![l].brightness[c] =
                  calc_component(b, subled[l].intensity[c])]
  /\ lastWriter' = [lastWriter EXCEPT ![l][c] = t]
  /\ ci' = [ci EXCEPT ![t] = c]
  /\ pc' = [pc EXCEPT ![t] = IF c < ch_per_led THEN "calc" ELSE "lock"]

\* lines 194-201: entry of the call for LED l with brightness b, callable
\* once the LED is registered (lines 245-250), and the first store of
\* led_mc_calc_color_components
bs_start(t, l, b) ==
  /\ pc[t] \in {"idle", "done"}
  /\ l \in registered
  /\ ncalls < MaxCalls
  /\ led' = [led EXCEPT ![t] = l]
  /\ bri' = [bri EXCEPT ![t] = b]
  /\ ret' = [ret EXCEPT ![t] = 0]
  /\ ncalls' = ncalls + 1
  /\ started' = [started EXCEPT ![l] = @ \cup {b}]
  /\ txCount' = [txCount EXCEPT ![t] = 0]
  /\ spi_result' = [spi_result EXCEPT ![t] = 0]
  /\ store_component(t, l, b, 1)
  /\ UNCHANGED <<probeVars, pixelstream, registered, mutex, ui, builtBy,
                 sent, sentLen, prev, changed, rebuilt>>

\* line 201: led_mc_calc_color_components stores the remaining components
\* of the LED one after the other, before the mutex is taken
bs_calc(t) ==
  /\ pc[t] = "calc"
  /\ store_component(t, led[t], bri[t], ci[t] + 1)
  /\ UNCHANGED <<probeVars, pixelstream, registered, mutex, led, bri, ui, ret,
                 ncalls, started, builtBy, spi_result, txCount, sent,
                 sentLen, prev, changed, rebuilt>>

\* a lock that never waits
mutex_never_waits(t) == TRUE

\* line 202: mutex_lock returns once the mutex is free
mutex_available(t) == mutex = 0

\* a loop over the LEDs that stops one LED short
update_limit_short == num_leds - 1

\* line 171: bound of the loop over the LEDs
update_limit == num_leds

bs_lock(t) ==
  /\ pc[t] = "lock"
  /\ mutex_available(t)
  /\ mutex' = t
  /\ ui' = [ui EXCEPT ![t] = 0]
  /\ pc' = [pc EXCEPT ![t] = IF 0 < update_limit THEN "update" ELSE "write"]
  /\ builtBy' = [i \in LedIdx |-> 0]
  /\ UNCHANGED <<probeVars, pixelstream, subled, registered, led, bri, ci, ret,
                 ncalls, started, lastWriter, spi_result, txCount, sent,
                 sentLen, prev, changed, rebuilt>>

\* a frame pointer that advances by one subpixel per LED
pixel_offset_subpixel(i) == i * subpixel_sz

\* line 176: where the pixel of LED i starts, the pointer having advanced by
\* pixel_sz per LED
pixel_offset(i) == i * pixel_sz

\* lines 171-177: one pass of the loop of ws281x_update_pixelstream; the
\* subled_info pointer of an LED whose array is not yet allocated is NULL
\* and reading through it faults
bs_update(t) ==
  /\ pc[t] = "update"
  /\ LET i == ui[t]
     IN IF subled[i] = NULL
          THEN /\ pc' = [pc EXCEPT ![t] = "oops"]
               /\ UNCHANGED <<pixelstream, ui, builtBy>>
          ELSE /\ pixelstream' =
                    StoreAt(pixelstream, pixel_offset(i),
                            ws2812_format_pixel_grb(
                              subled[i].brightness[LED_COLOR_ID_GREEN + 1],
                              subled[i].brightness[LED_COLOR_ID_RED + 1],
                              subled[i].brightness[LED_COLOR_ID_BLUE + 1]))
               /\ ui' = [ui EXCEPT ![t] = i + 1]
               /\ pc' = [pc EXCEPT ![t] =
                           IF i + 1 < update_limit THEN "update" ELSE "write"]
               /\ builtBy' = [builtBy EXCEPT ![i] = t]
  /\ UNCHANGED <<probeVars, subled, registered, mutex, led, bri, ci, ret,
                 ncalls, started, lastWriter, spi_result, txCount, sent,
                 sentLen, prev, changed, rebuilt>>

\* a write that logs the transport error and reports success
write_return_swallow(r) == 0

\* lines 147-153: what ws281x_write returns for the result r of spi_sync
write_return(r) == IF r # 0 THEN r ELSE 0

\* a caller that transmits again after a failed transmission
after_write_retry(r) == IF r # 0 THEN "write" ELSE "unlock"

\* lines 204-205: the step that follows ws281x_write
after_write(r) == "unlock"

\* a caller that switches the LED off again when the transmission failed
subled_rollback(t, r) ==
  IF r # 0 THEN [subled EXCEPT ![led[t]].brightness = <<LED_OFF, LED_OFF, LED_OFF>>]
  ELSE subled

\* lines 204-207: the channel state after a transmission with result r
subled_after_write(t, r) == subled

\* a transfer length counted in subpixels
xfer_len_subpixels == subpixel_sz * num_leds

\* line 144: xfers.len
xfer_len == pixel_sz * num_leds

\* lines 143-147 and 204: one spi_sync of the whole pixelstream
bs_write(t, r) ==
  /\ pc[t] = "write"
  /\ sent' = pixelstream
  /\ sentLen' = xfer_len
  /\ spi_result' = [spi_result EXCEPT ![t] = r]
  /\ txCount' = [txCount EXCEPT ![t] = @ + 1]
  /\ ret' = [ret EXCEPT ![t] = write_return(r)]
  /\ subled' = subled_after_write(t, r)
  /\ pc' = [pc EXCEPT ![t] = after_write(r)]
  /\ UNCHANGED <<probeVars, pixelstream, registered, mutex, led, bri, ci, ui,
                 ncalls, started, lastWriter, builtBy, prev, changed,
                 rebuilt>>

\* an error path that returns without mutex_unlock
mutex_kept_on_error(t) == IF ret[t] # 0 THEN mutex ELSE 0

\* line 205: the owner of the mutex after mutex_unlock
mutex_after_unlock(t) == 0

\* lines 205-207: mutex_unlock, then return ret
bs_unlock(t) ==
  /\ pc[t] = "unlock"
  /\ mutex' = mutex_after_unlock(t)
  /\ pc' = [pc EXCEPT ![t] = "done"]
  /\ builtBy' = [i \in LedIdx |-> 0]
  /\ UNCHANGED <<probeVars, pixelstream, subled, registered, led, bri, ci, ui,
                 ret, ncalls, started, lastWriter, spi_result, txCount, sent,
                 sentLen, prev, changed, rebuilt>>

ws281x_brightness_set_blocking(t) ==
  \/ \E l \in LedIdx, b \in BrightnessInputs : bs_start(t, l, b)
  \/ bs_calc(t)
  \/ bs_lock(t)
  \/ bs_update(t)
  \/ \E r \in SpiResults : bs_write(t, r)
  \/ bs_unlock(t)

Next ==
  \/ ws281x_spi_probe
  \/ \E t \in Threads : ws281x_brightness_set_blocking(t)

Spec == Init /\ [][Next]_vars

(* ---------- ws281x_update_pixelstream driven on its own ---------------- *)
RECURSIVE update_pixelstream_from(_, _)
\* lines 166-178: ws281x_update_pixelstream as a function of the buffer it is
\* given and the channel state, from LED i on
update_pixelstream_from(buf, i) ==
  IF i >= update_limit THEN buf
  ELSE update_pixelstream_from(
         StoreAt(buf, pixel_offset(i),
                 ws2812_format_pixel_grb(
                   subled[i].brightness[LED_COLOR_ID_GREEN + 1],
                   subled[i].brightness[LED_COLOR_ID_RED + 1],
                   subled[i].brightness[LED_COLOR_ID_BLUE + 1])),
         i + 1)

\* channel triples <<red, green, blue>> a chain can hold: off, full red, three
\* distinct mid values, and a block of devm_kmalloc_array as it was handed out
FrameTriples == { <<0, 0, 0>>, <<255, 0, 0>>, <<32, 16, 48>>, <<346, 7, 200>> }

\* one triple per byte value: each channel takes every value of 0..255
FullTriples == { <<v, 255 - v, (3 * v) % 256>> : v \in 0..255 }

\* what the pixelstream can hold when a rebuild starts: the zeros of
\* devm_kcalloc, or bytes that are no frame of the current channel state
PriorContents(n) ==
  { Zeros(n), [k \in 1..n |-> 255], [k \in 1..n |-> one_val] }

\* the state ws281x_spi_probe leaves for a chain of n LEDs, no call running
ChainReady(n) ==
  /\ ppc = "done"
  /\ count = n
  /\ probe_ret = 0
  /\ num_leds = n
  /\ mutex_inited = TRUE
  /\ spi_cfg = [mode |-> SPI_MODE_0, bits_per_word |-> 8,
                max_speed_hz |-> write_freq]
  /\ spi_ptr = TRUE
  /\ num = n
  /\ registered = 0..(n - 1)
  /\ mutex = 0
  /\ pc = [t \in Threads |-> "idle"]
  /\ led = [t \in Threads |-> 0]
  /\ bri = [t \in Threads |-> 0]
  /\ ci = [t \in Threads |-> 0]
  /\ ui = [t \in Threads |-> 0]
  /\ ret = [t \in Threads |-> 0]
  /\ ncalls = 0
  /\ started = [i \in LedIdx |-> {}]
  /\ lastWriter = [i \in LedIdx |-> ZeroTriple]
  /\ builtBy = [i \in LedIdx |-> 0]
  /\ spi_result = [t \in Threads |-> 0]
  /\ txCount = [t \in Threads |-> 0]
  /\ sent = <<>>
  /\ sentLen = 0
  /\ prev = <<>>
  /\ changed = {}
  /\ rebuilt = FALSE

\* a chain whose LEDs hold any of the FrameTriples, over any prior buffer
FrameInit ==
  \E n \in 1..MaxLeds :
    /\ ChainReady(n)
    /\ heap = [intensity |-> ZeroTriple, brightness |-> ZeroTriple]
    /\ \E f \in [0..(n - 1) -> FrameTriples] :
         subled = [i \in LedIdx |->
                     IF i < n THEN [intensity |-> heap.intensity,
                                    brightness |-> f[i]]
                     ELSE NULL]
    /\ pixelstream \in PriorContents(pixel_sz * n)

\* a chain in which one LED holds any of the FullTriples and the others are off
EncInit ==
  \E n \in 1..MaxLeds :
    /\ ChainReady(n)
    /\ heap = [intensity |-> ZeroTriple, brightness |-> ZeroTriple]
    /\ \E k \in 0..(n - 1), v \in FullTriples :
         subled = [i \in LedIdx |->
                     IF i = k THEN [intensity |-> heap.intensity,
                                    brightness |-> v]
                     ELSE IF i < n THEN [intensity |-> heap.intensity,
                                         brightness |-> ZeroTriple]
                     ELSE NULL]
    /\ pixelstream \in PriorContents(pixel_sz * n)

\* lines 201 and 73-78 of the LED core: the three channels of LED k are
\* stored between two rebuilds
frame_store(k, v) ==
  /\ pc[1] \in {"idle", "done"}
  /\ k < num_leds
  /\ subled' = [subled EXCEPT ![k].brightness = v]
  /\ changed' = changed \cup {k}
  /\ UNCHANGED <<probeVars, pixelstream, registered, mutex, pc, led, bri, ci,
                 ui, ret, ncalls, started, lastWriter, builtBy, spi_result,
                 txCount, sent, sentLen, prev, rebuilt>>

\* lines 202-203 and 166-171: the mutex is taken and the rebuild is entered
frame_begin ==
  /\ pc[1] \in {"idle", "done"}
  /\ mutex_available(1)
  /\ mutex' = 1
  /\ ui' = [ui EXCEPT ![1] = 0]
  /\ pc' = [pc EXCEPT ![1] = IF 0 < update_limit THEN "update" ELSE "write"]
  /\ builtBy' = [i \in LedIdx |-> 0]
  /\ prev' = pixelstream
  /\ rebuilt' = (pc[1] = "done")
  /\ UNCHANGED <<probeVars, pixelstream, subled, registered, led, bri, ci, ret,
                 ncalls, started, lastWriter, spi_result, txCount, sent,
                 sentLen, changed>>

\* lines 178 and 205: the rebuild has returned and the mutex is released
frame_end ==
  /\ pc[1] = "write"
  /\ mutex' = mutex_after_unlock(1)
  /\ pc' = [pc EXCEPT ![1] = "done"]
  /\ changed' = {}
  /\ UNCHANGED <<probeVars, pixelstream, subled, registered, led, bri, ci, ui,
                 ret, ncalls, started, lastWriter, builtBy, spi_result,
                 txCount, sent, sentLen, prev, rebuilt>>

FrameNext ==
  \/ \E k \in LedIdx, v \in FrameTriples : frame_store(k, v)
  \/ frame_begin
  \/ bs_update(1)
  \/ frame_end

FrameSpec == FrameInit /\ [][FrameNext]_vars

EncNext ==
  \/ frame_begin
  \/ bs_update(1)
  \/ frame_end

EncSpec == EncInit /\ [][EncNext]_vars

(* ---------------------- reading a frame back --------------------------- *)
Pow2(n) == IF n = 0 THEN 1 ELSE IF n = 1 THEN 2 ELSE IF n = 2 THEN 4
           ELSE IF n = 3 THEN 8 ELSE IF n = 4 THEN 16 ELSE IF n = 5 THEN 32
           ELSE IF n = 6 THEN 64 ELSE 128

RECURSIVE DecodeFrom(_, _, _)
\* the byte whose bits, MSB first, are the symbols buf[off+j+1 .. off+8]
DecodeFrom(buf, off, j) ==
  IF j >= 8 THEN 0
  ELSE (IF buf[off + j + 1] = one_val THEN Pow2(7 - j) ELSE 0)
       + DecodeFrom(buf, off, j + 1)

\* the <<red, green, blue>> triple a frame holds for LED i
DecodePixel(buf, i) ==
  << DecodeFrom(buf, i * 24 + 8, 0),
     DecodeFrom(buf, i * 24, 0),
     DecodeFrom(buf, i * 24 + 16, 0) >>

\* the channel state of LED i as the bytes the encoder is given
StateTriple(i) == [c \in 1..3 |-> U8(subled[i].brightness[c])]

\* the frame the data model prescribes for the current channel state: byte k
\* is the symbol of bit 7 - k mod 8 of the channel (green, red, blue) that
\* owns the k-th byte of its LED's region
ChannelAt(k) ==
  LET sub == (k % 24) \div 8
  IN IF sub = 0 THEN 2 ELSE IF sub = 1 THEN 1 ELSE 3
SpecByte(k) ==
  LET v == StateTriple(k \div 24)[ChannelAt(k)]
  IN IF (v \div Pow2(7 - (k % 8))) % 2 = 1 THEN one_val ELSE zero_val
SpecFrame == [k \in 1..(24 * num_leds) |-> SpecByte(k - 1)]

\* the triple the call of thread t stores into its LED
Vals(t) ==
  [c \in 1..3 |-> calc_component(bri[t], subled[led[t]].intensity[c])]

\* the triples one single update of LED i, or its allocation, stored
ValidTriples(i) ==
  { [c \in 1..3 |-> U8(heap.brightness[c])] }
    \cup { [c \in 1..3 |-> U8(calc_component(b, heap.intensity[c]))] :
             b \in started[i] }

Leds == 0..(num_leds - 1)
InSection(t) == pc[t] \in {"update", "write", "unlock", "oops"}
Quiescent == \A t \in Threads : pc[t] \in {"idle", "done"}

(* ------------------------------ claims --------------------------------- *)
\* C1: at most one call at a time is inside the rebuild + transmit section,
\* the thread inside owns the mutex, and every buffer handed to the transport
\* was written, region by region, by the one pass of the call that sends it.
C1_MutualExclusion ==
  /\ \A t, u \in Threads : t # u => ~(InSection(t) /\ InSection(u))
  /\ \A t \in Threads : InSection(t) => mutex = t
  /\ \A t \in Threads :
       pc[t] \in {"write", "unlock"} => \A i \in Leds : builtBy[i] = t
  /\ \A t \in Threads : pc[t] = "unlock" => sent = pixelstream

\* a second caller waits at the mutex while the first is about to transmit
C1_Witness ==
  \E t, u \in Threads : t # u /\ pc[t] = "write" /\ pc[u] = "lock"

\* C2: every thread that is writing channel state or the frame buffer holds
\* the mutex, and no thread rebuilds (reads channel state) while another
\* thread is in the middle of storing channel values.
C2_AllStepsUnderLock ==
  /\ \A t \in Threads :
       pc[t] \in {"calc", "update", "write", "unlock"} => mutex = t
  /\ \A t, u \in Threads : ~(pc[t] = "calc" /\ pc[u] = "update")

\* C3: every frame handed to the transport holds, for each LED, a triple
\* that one single update of that LED (or its initial state) stored.
C3_AtomicTriples ==
  \A t \in Threads :
    pc[t] = "unlock" =>
      \A i \in Leds : DecodePixel(sent, i) \in ValidTriples(i)

ChannelCurrent(buf, i, c) ==
  LET first == 24 * i + (IF c = 2 THEN 0 ELSE IF c = 1 THEN 8 ELSE 16)
  IN \A k \in first..(first + 7) : buf[k + 1] = SpecByte(k)

\* thread w has stored channel c of LED i in a call that has not yet reached
\* the mutex
PendingStore(w, i, c) ==
  /\ pc[w] \in {"calc", "lock"}
  /\ led[w] = i
  /\ ci[w] >= c

\* C5: the frame a caller has rebuilt under the mutex covers every LED and
\* holds, for every channel, the channel's current value, except where a
\* call that has not yet reached the mutex has stored a newer one: the frame
\* reflects the stores of every call that returned or held the mutex before,
\* so no value older than a transmitted one can be transmitted after it.
C5_OrderedCumulative ==
  \A t \in Threads :
    pc[t] = "write" =>
      \A i \in Leds : \A c \in 1..3 :
        /\ subled[i] # NULL
        /\ \/ ChannelCurrent(pixelstream, i, c)
           \/ \E w \in Threads \ {t} : PendingStore(w, i, c)

\* a caller is about to transmit a frame after another caller's update of a
\* different LED was transmitted and returned, and that update changed the
\* LED's state
C5_Witness ==
  \E t, u \in Threads :
    /\ t # u /\ pc[t] = "write" /\ pc[u] = "done" /\ led[u] # led[t]
    /\ subled[led[u]].brightness # heap.brightness
    /\ \A c \in 1..3 : lastWriter[led[u]][c] = u

\* C6: the value a call returns is the result of its transmission: 0 exactly
\* when spi_sync returned 0, otherwise the code spi_sync returned.
C6_ResultIsTransportResult ==
  \A t \in Threads :
    pc[t] = "done" =>
      /\ ret[t] = spi_result[t]
      /\ (ret[t] = 0) <=> (spi_result[t] = 0)

\* one call has returned a transport error and another has returned success
C6_Witness ==
  \E t, u \in Threads :
    /\ pc[t] = "done" /\ spi_result[t] = -5
    /\ pc[u] = "done" /\ spi_result[u] = 0 /\ txCount[u] = 1

\* every channel of the LED of thread t's call was stored last by that call
LatestWriter(t) == \A c \in 1..3 : lastWriter[led[t]][c] = t

C8_LockReleased ==
  /\ \A t \in Threads : pc[t] = "done" => mutex # t
  /\ Quiescent => mutex = 0

\* a call has returned a transport error and no call is in progress
C8_Witness ==
  /\ Quiescent
  /\ \E t \in Threads : pc[t] = "done" /\ ret[t] # 0
  /\ mutex = 0

\* C9: a call hands the frame to the transport exactly once: never before
\* its transmit step, once from then on, also when the transmission failed.
C9_TransmitOnce ==
  \A t \in Threads :
    /\ pc[t] \in {"calc", "lock", "update", "write"} => txCount[t] = 0
    /\ pc[t] \in {"unlock", "done"} => txCount[t] = 1

\* a call whose only transmission failed has returned
C9_Witness ==
  \E t \in Threads :
    pc[t] = "done" /\ spi_result[t] # 0 /\ txCount[t] = 1

\* C10: whenever an LED of the chain is callable, the lock, the transport
\* handle, the frame buffer and the channel arrays of all num_leds LEDs are
\* initialized; no rebuild reads through an unset channel array; and after a
\* failed setup no LED is callable.
C10_NoPartialChain ==
  /\ registered # {} =>
       /\ mutex_inited /\ spi_ptr /\ pixelstream # <<>>
       /\ \A i \in Leds : subled[i] # NULL
  /\ \A t \in Threads : pc[t] # "oops"
  /\ ppc = "failed" => registered = {}

\* C11: every setup step that fails makes ws281x_spi_probe return an error
\* and stop: a chain of zero LEDs allocates nothing, a failed allocation is
\* never used (setup never faults on one), and a failed setup has returned a
\* negative errno with no LED left registered.
C11_SetupErrorsAbort ==
  /\ ppc # "oops"
  /\ count = 0 => num_leds = 0 /\ pixelstream = <<>> /\ registered = {}
  /\ ppc = "failed" => probe_ret < 0 /\ registered = {}

\* the region of LED i in a buffer, and the region the data model prescribes
\* for the current channel state of LED i
RegionOf(buf, i) == SubSeq(buf, 24 * i + 1, 24 * i + 24)
SpecRegion(i) == [k \in 1..24 |-> SpecByte(24 * i + k - 1)]

\* C12: when a rebuild has returned, the buffer is num_leds regions of 24
\* bytes in chain order and region i is the encoding of LED i's channel
\* state; for the chain LED 0 = (0,0,0), LED 1 = (r 255, g 0, b 0) the frame
\* is 48 bytes, 0xFC at bytes 32..39 and 0xC0 everywhere else.
C12_FrameInChainOrder ==
  pc[1] = "write" =>
    /\ Len(pixelstream) = 24 * num_leds
    /\ \A i \in Leds : RegionOf(pixelstream, i) = SpecRegion(i)
    /\ (num_leds = 2 /\ StateTriple(0) = <<0, 0, 0>>
          /\ StateTriple(1) = <<255, 0, 0>>)
         => pixelstream = [k \in 1..48 |->
                             IF k - 1 \in 32..39 THEN 252 ELSE 192]

\* the two-LED example, rebuilt over a buffer of 0xff bytes
C12_Witness ==
  /\ pc[1] = "write"
  /\ num_leds = 2
  /\ subled[0].brightness = <<0, 0, 0>>
  /\ subled[1].brightness = <<255, 0, 0>>
  /\ prev = [k \in 1..48 |-> 255]

\* the channel of LED i whose colour id is c, as the byte the encoder is given
ChannelByte(i, c) == U8(subled[i].brightness[c + 1])

\* C13: the 8 bytes a rebuild wrote for a channel value v of 0..255 are, for
\* j = 0..7, one_val when bit 7 - j of v is 1 and zero_val when it is 0, and
\* reading the 8 symbols back MSB first gives v again. Checked on each channel
\* of each encoded LED, one LED of the chain taking every value of 0..255.
C13_SubpixelMsbFirst ==
  \A i \in Leds :
    (pc[1] \in {"update", "write"} /\ i < ui[1]) =>
      \A s \in 0..2 :
        LET c == IF s = 0 THEN LED_COLOR_ID_GREEN
                 ELSE IF s = 1 THEN LED_COLOR_ID_RED ELSE LED_COLOR_ID_BLUE
            v == ChannelByte(i, c)
            off == 24 * i + 8 * s
        IN /\ \A j \in 0..7 :
                /\ pixelstream[off + j + 1] \in {zero_val, one_val}
                /\ pixelstream[off + j + 1] = one_val
                     <=> (v \div Pow2(7 - j)) % 2 = 1
           /\ DecodeFrom(pixelstream, off, 0) = v

\* the green channel value 0xa5 = 10100101b has been encoded
C13_Witness ==
  /\ pc[1] = "write"
  /\ \E i \in Leds :
       /\ ChannelByte(i, LED_COLOR_ID_GREEN) = 165
       /\ SubSeq(pixelstream, 24 * i + 1, 24 * i + 8)
            = <<252, 192, 252, 192, 192, 252, 192, 252>>

\* the 8 symbols the data model prescribes for a byte v, MSB first
Symbols(v) ==
  [j \in 1..8 |-> IF (v \div Pow2(8 - j)) % 2 = 1 THEN one_val ELSE zero_val]

\* C14: the region of every LED the rebuild has encoded holds the symbols of
\* its green channel at offset 0, of its red channel at offset 8 and of its
\* blue channel at offset 16, red, green and blue being the channels of colour
\* id LED_COLOR_ID_RED, _GREEN and _BLUE; encoding a pixel writes those 24
\* bytes only: the regions of the LEDs not yet encoded are as the rebuild
\* found them and the buffer keeps its length.
C14_GreenRedBlue ==
  pc[1] \in {"update", "write"} =>
    /\ Len(pixelstream) = Len(prev)
    /\ \A i \in Leds :
         IF i < ui[1]
           THEN /\ SubSeq(pixelstream, 24 * i + 1, 24 * i + 8)
                     = Symbols(ChannelByte(i, LED_COLOR_ID_GREEN))
                /\ SubSeq(pixelstream, 24 * i + 9, 24 * i + 16)
                     = Symbols(ChannelByte(i, LED_COLOR_ID_RED))
                /\ SubSeq(pixelstream, 24 * i + 17, 24 * i + 24)
                     = Symbols(ChannelByte(i, LED_COLOR_ID_BLUE))
           ELSE RegionOf(pixelstream, i) = RegionOf(prev, i)

\* LED 0 with three distinct channel values is encoded while the region of
\* LED 1 still holds the 0xff bytes the rebuild found
C14_Witness ==
  /\ pc[1] = "update"
  /\ ui[1] = 1
  /\ num_leds >= 2
  /\ subled[0].brightness = <<90, 165, 14>>
  /\ RegionOf(pixelstream, 0)
       = Symbols(165) \o Symbols(90) \o Symbols(14)
  /\ RegionOf(pixelstream, 1) = [k \in 1..24 |-> 255]

\* C15: once allocated, the pixelstream is pixel_sz * num_leds bytes long for
\* a chain of num_leds >= 1 LEDs, in every state of setup and of any updates,
\* and every transmission handed the transport that buffer with exactly that
\* length as xfers.len.
C15_FrameLength ==
  /\ pixelstream # <<>> =>
       num_leds >= 1 /\ Len(pixelstream) = 24 * num_leds
  /\ \A t \in Threads :
       txCount[t] > 0 =>
         /\ Len(sent) = 24 * num_leds
         /\ sentLen = Len(sent)
         /\ sentLen = Len(pixelstream)

\* a chain of two LEDs has transmitted its 48-byte frame
C15_Witness ==
  /\ num_leds = 2
  /\ \E t \in Threads : txCount[t] > 0 /\ pc[t] = "done"
  /\ sentLen = 48
  /\ Len(pixelstream) = 48

\* the bytes at which two buffers of one length differ, as 0-based offsets
DiffBytes(a, b) == { k \in 0..(Len(a) - 1) : a[k + 1] # b[k + 1] }

\* C16: when a rebuild has returned after an earlier one, every byte in which
\* the new frame differs from the earlier frame lies in the region of an LED
\* whose channels were stored in between, although the rebuild wrote every
\* region again; so when only LED k was stored, only region k can differ.
C16_ChangeStaysInRegion ==
  (pc[1] = "write" /\ rebuilt) =>
    /\ \A i \in Leds : builtBy[i] = 1
    /\ \A k \in DiffBytes(pixelstream, prev) : (k \div 24) \in changed

\* only LED 1 of two was stored between two rebuilds, and its region differs
C16_Witness ==
  /\ pc[1] = "write"
  /\ rebuilt
  /\ num_leds = 2
  /\ changed = {1}
  /\ DiffBytes(pixelstream, prev) # {}
  /\ subled[0].brightness = <<32, 16, 48>>

\* C17: a rebuild that follows another with no channel stored in between
\* leaves the buffer byte for byte as it found it, and the buffer a rebuild
\* returns is the one it would return over any other prior content: the
\* result depends on the channel state only.
C17_RebuildIdempotent ==
  pc[1] = "write" =>
    /\ (rebuilt /\ changed = {}) => pixelstream = prev
    /\ \A p \in PriorContents(Len(pixelstream)) :
         pixelstream = update_pixelstream_from(p, 0)

\* a second rebuild, with nothing stored since the first, has returned the
\* frame of symbols the first one left
C17_Witness ==
  /\ pc[1] = "write"
  /\ rebuilt
  /\ changed = {}
  /\ pixelstream = prev
  /\ pixelstream = SpecFrame
  /\ \E i \in Leds : subled[i].brightness = <<32, 16, 48>>

\* C18: no step of a brightness-set call (a step that is not a step of setup)
\* changes what setup fixed: the LED count, the pixelstream's allocation and
\* length, the transport's mode, word size and clock, the transport handle
\* and the initialised mutex. The chip profile is constant data.
C18_ConfigFixed ==
  [][ppc' = ppc =>
       /\ count' = count
       /\ num_leds' = num_leds
       /\ Len(pixelstream') = Len(pixelstream)
       /\ spi_cfg' = spi_cfg
       /\ spi_ptr' = spi_ptr
       /\ mutex_inited' = mutex_inited]_vars

\* a call on a chain of two LEDs has rebuilt, transmitted and returned, and
\* the transport is configured as setup left it
C18_Witness ==
  /\ ppc = "done"
  /\ num_leds = 2
  /\ \E t \in Threads : pc[t] = "done" /\ txCount[t] = 1
  /\ spi_cfg = [mode |-> SPI_MODE_0, bits_per_word |-> 8,
                max_speed_hz |-> write_freq]
  /\ Len(pixelstream) = 48

\* the scheduling the claim assumes: setup and every call that can take a
\* step eventually take it, a transmission eventually completes or fails,
\* and a caller waiting for a mutex that is free again and again gets it
FairSpec ==
  /\ Spec
  /\ WF_vars(ws281x_spi_probe)
  /\ \A t \in Threads :
       /\ WF_vars(bs_calc(t))
       /\ SF_vars(bs_lock(t))
       /\ WF_vars(bs_update(t))
       /\ WF_vars(\E r \in SpiResults : bs_write(t, r))
       /\ WF_vars(bs_unlock(t))

\* C19: under fair scheduling every call that has started eventually
\* returns, having taken the mutex and transmitted.
C19_CallsReturn ==
  \A t \in Threads :
    (pc[t] \notin {"idle", "done"}) ~> (pc[t] = "done" /\ txCount[t] = 1)

\* C20: an LED no call has been started for holds the channel state off: its
\* region in every frame handed to the transport is 24 bytes of zero_val,
\* and every channel value a rebuild is about to read lies in 0..255.
C20_NeverUpdatedIsOff ==
  /\ \A t \in Threads :
       (pc[t] = "update" /\ subled[ui[t]] # NULL) =>
         \A c \in 1..3 : subled[ui[t]].brightness[c] \in 0..255
  /\ \A t \in Threads, i \in Leds :
       (pc[t] = "unlock" /\ started[i] = {}) =>
         RegionOf(sent, i) = [k \in 1..24 |-> zero_val]

============================================================================
